---- MODULE Spec2Model ----
(***************************************************************************)
(* Motion packet backend: upload handler, background generation task,     *)
(* in-memory session store (event log + status) and the SSE relay that     *)
(* polls the log, for the variants main.py, main_o3.py, main_backup.py     *)
(* and (upload handler only) main_enhanced.py.                             *)
(*                                                                         *)
(* Scheduling is asyncio's: one task runs at a time and keeps the event    *)
(* loop until it reaches an await (or, for the relay's async generator, a  *)
(* yield).  cpu = "gen" while the generation task is between two awaits;   *)
(* every other task steps only when cpu = "idle".                          *)
(*                                                                         *)
(* Indexes are Python's: the event at index k of session["events"] is      *)
(* events[k + 1] here.                                                     *)
(***************************************************************************)
EXTENDS Integers, Sequences, FiniteSets, TLC

\* ---- bounds of the model ------------------------------------------------
\* words of thinking_text streamed by main.py's simulated reasoning
MaxWords == 2
\* content chunks the provider streams in one model turn
MaxChunks == 2
\* tool calls the provider requests in one model turn
MaxTools == 1
\* events the provider's answers may cause in one session (thinking + search)
MaxLog == 3
\* model turns answered without final documents when a relay is attached
MaxTurns == 2
\* model turns answered without final documents when the loop is run alone
LongTurns == 26

\* ---- program constants --------------------------------------------------
\* len(search_queries) in main.py
NumSearchQueries == 3
\* "if len(messages) > 25: break"
IterationCap == 25
\* len(messages) before the first model request: system + user
InitialMessages == 2

Variants == {"main", "o3", "backup", "enhanced"}
\* the variants whose generate_with_o3_research drives the model in a loop
LoopVariants == {"o3", "backup"}
\* the variants with a session store and an SSE relay
SseVariants == {"main", "o3", "backup"}

VARIABLES
    variant,             \* which backend module is running
    cpu,                 \* "idle" | "gen": who holds the event loop
    uppc,                \* position of the upload handler
    exhibit_a_readable,  \* input: pdfplumber can read exhibit A
    names_ok,            \* input: all three filenames end in .pdf
    saved,               \* exhibits written so far by the saving loop
    response,            \* what the upload request answered
    handler_waited,      \* the handler awaited research / generation itself
    files,               \* file names in temp_dir / session_id
    download,            \* answer of the last download request
    in_store,            \* session_id in active_sessions
    events,              \* active_sessions[session_id]["events"]
    status,              \* active_sessions[session_id]["status"]
    genpc,               \* position of the generation task
    words,               \* main.py: chunks of thinking_text still to stream
    queries,             \* main.py: search queries done
    messages_len,        \* len(messages)
    last_content,        \* content of the last assistant message that has content
    tool_calls,          \* tool calls of the current turn still to handle
    turns,               \* model turns requested so far
    attempts,            \* create() calls of the current turn: <<model, outcome>>
    search_failed,       \* some web_search call hit its except branch
    model_failed,        \* a model call, or reading the tool arguments of its
                         \* answer, raised into the outer except
    raised,              \* main.py: the try body raised
    rpc,                 \* position of the relay (event_generator)
    connected,           \* the relay's client is still connected
    last_event_index,    \* event_generator's last_event_index
    i,                   \* event_generator's for-loop variable
    range_end,           \* len(events) as evaluated by range(...) at loop entry
    forwarded,           \* indexes of the events yielded to the client, in order
    fn,                  \* the function under call when one is run on its own
    arg,                 \* its argument
    ret,                 \* its return value
    active_connections,  \* main_enhanced.py: the list of accepted WebSockets
    sockets,             \* each WebSocket: its state and the session_id of its URL
    inbox,               \* the research_progress messages each WebSocket received
    broadcasts           \* each session's broadcast_progress call, where it stands

upVars == <<uppc, exhibit_a_readable, names_ok, saved, response, handler_waited>>
storeVars == <<in_store, events, status>>
genVars == <<genpc, words, queries, messages_len, last_content, tool_calls,
             turns, attempts, search_failed, model_failed, raised>>
relayVars == <<rpc, connected, last_event_index, i, range_end, forwarded>>
callVars == <<fn, arg, ret>>
socketVars == <<active_connections, sockets, inbox, broadcasts>>
serverVars == <<cpu, upVars, files, download, storeVars, genVars, relayVars>>
vars == <<variant, serverVars, callVars, socketVars>>

\* ---- events and the session store ----------------------------------------
ThinkingEvent == [type |-> "thinking", data |-> "text"]
SearchEventAsThinking == [type |-> "thinking", data |-> "results"]
SearchEvent == [type |-> "search", data |-> "results"]
ErrorEvent == [type |-> "error", data |-> "message"]
DoneEventAsError == [type |-> "error", data |-> "links"]
DoneEventAsSearch == [type |-> "search", data |-> "links"]
DoneEvent == [type |-> "done", data |-> "links"]

\* active_sessions[session_id] = {"events": [], "status": "active"}
NewSessionNoStatus == [events |-> <<>>, status |-> "none"]
NewSessionWrongStatus == [events |-> <<>>, status |-> "completed"]
NewSession == [events |-> <<>>, status |-> "active"]

\* session["events"].append(e)
AppendEventReplacing(log, e) == <<e>>
AppendEvent(log, e) == Append(log, e)

RECURSIVE AppendTimes(_, _, _)
AppendTimes(log, e, n) ==
    IF n = 0 THEN log ELSE AppendTimes(AppendEvent(log, e), e, n - 1)

HasType(log, t) == \E k \in DOMAIN log : log[k].type = t

\* the three PDFs written by the "Create PDFs" loop, in dict order
DocNames == <<"Motion.pdf", "Memo.pdf", "Declaration.pdf">>
ZipNameOfMain(v) == "motion_packet.zip"
ZipName(v) == IF v = "backup" THEN "packet.zip" ELSE "motion_packet.zip"
DocFiles(n) == {DocNames[k] : k \in 1..n}
GeneratedFiles(v) == DocFiles(3) \cup {ZipName(v)}

\* ---- upload handler -------------------------------------------------------
\* the function the handler hands to asyncio.create_task is defined
TaskTargetDefined(v) == v # "backup"
\* the handler checks the filename extensions before anything else
ValidatesNames(v) == v \in {"backup", "enhanced"}
\* the handler saves only exhibit A (1) or all three exhibits (3)
ExhibitsSaved(v) == IF v \in {"backup", "enhanced"} THEN 3 ELSE 1
ExhibitNames == <<"exhibit_a.pdf", "exhibit_b.pdf", "exhibit_c.pdf">>
\* an HTTPException raised inside the handler's try is rewrapped as a 500
ExtractionError(v) == IF v \in {"backup", "enhanced"} THEN "error500" ELSE "error400"

\* request arrives: validation, uuid4, mkdir, then the first await exhibit.read()
UploadBegin ==
    /\ cpu = "idle"
    /\ uppc = "idle"
    /\ \E r \in BOOLEAN, n \in BOOLEAN :
        /\ exhibit_a_readable' = r
        /\ names_ok' = n
        /\ IF ValidatesNames(variant) /\ ~n
           THEN uppc' = "returned" /\ response' = "error400"
           ELSE uppc' = "saving" /\ response' = response
    /\ UNCHANGED <<socketVars, callVars, variant, download, cpu, saved, handler_waited, files, storeVars, genVars, relayVars>>

\* f.write(await exhibit.read()) for one exhibit; more exhibits mean another await
UploadSave ==
    /\ cpu = "idle"
    /\ uppc = "saving"
    /\ saved < ExhibitsSaved(variant)
    /\ saved' = saved + 1
    /\ files' = files \cup {ExhibitNames[saved + 1]}
    /\ uppc' = IF saved + 1 < ExhibitsSaved(variant) THEN "saving" ELSE "saved"
    /\ UNCHANGED <<socketVars, callVars, variant, download, cpu, exhibit_a_readable, names_ok, response, handler_waited,
                   storeVars, genVars, relayVars>>

\* after the last write, without an await: extract_text_from_pdf,
\* parse_defendant_info, asyncio.create_task(...) and the return
UploadProcess ==
    /\ cpu = "idle"
    /\ uppc = "saved"
    /\ IF ~exhibit_a_readable
       THEN /\ uppc' = "returned"
            /\ response' = ExtractionError(variant)
            /\ UNCHANGED <<genpc, handler_waited>>
       ELSE IF variant = "enhanced"
       THEN /\ uppc' = "research"
            /\ UNCHANGED <<response, genpc, handler_waited>>
       ELSE IF TaskTargetDefined(variant)
       THEN /\ uppc' = "returned"
            /\ response' = "session_id"
            /\ genpc' = "created"
            /\ UNCHANGED handler_waited
       ELSE /\ uppc' = "returned"
            /\ response' = "error500"
            /\ UNCHANGED <<genpc, handler_waited>>
    /\ UNCHANGED <<socketVars, callVars, variant, download, cpu, exhibit_a_readable, names_ok, saved, files, storeVars,
                   words, queries, messages_len, last_content, tool_calls, turns,
                   attempts, search_failed, model_failed, raised, relayVars>>

\* main_enhanced.py: research_data = await perform_legal_research(...)
EnhancedResearch ==
    /\ cpu = "idle"
    /\ variant = "enhanced"
    /\ uppc = "research"
    /\ handler_waited' = TRUE
    /\ \E ok \in BOOLEAN :
        IF ok THEN uppc' = "documents" /\ response' = response
              ELSE uppc' = "returned" /\ response' = "error500"
    /\ UNCHANGED <<socketVars, callVars, variant, download, cpu, exhibit_a_readable, names_ok, saved, files, storeVars,
                   genVars, relayVars>>

\* main_enhanced.py: documents = await generate_legal_documents_with_o3_research(...),
\* the three create_pdf_document calls, create_zip_package and the return of the links
EnhancedDocuments ==
    /\ cpu = "idle"
    /\ variant = "enhanced"
    /\ uppc = "documents"
    /\ \E ok \in BOOLEAN :
        IF ok
        THEN /\ files' = files \cup {"Enhanced_Motion.pdf", "Research_Memo.pdf",
                                     "Enhanced_Declaration.pdf", "enhanced_fsa_packet.zip"}
             /\ response' = "links"
        ELSE /\ files' = files
             /\ response' = "error500"
    /\ uppc' = "returned"
    /\ UNCHANGED <<socketVars, callVars, variant, download, cpu, exhibit_a_readable, names_ok, saved, handler_waited,
                   storeVars, genVars, relayVars>>

\* main_backup.py: generate_with_o3_research entered by a direct call (its own
\* upload handler names generate_with_research, which is not defined)
DirectCall ==
    /\ cpu = "idle"
    /\ variant = "backup"
    /\ genpc = "none"
    /\ uppc = "returned"
    /\ genpc' = "created"
    /\ UNCHANGED <<socketVars, callVars, variant, download, cpu, upVars, files, storeVars, words, queries, messages_len,
                   last_content, tool_calls, turns, attempts, search_failed,
                   model_failed, raised, relayVars>>

\* ---- generation task: shared pieces ------------------------------------------
Min(a, b) == IF a < b THEN a ELSE b
Max(a, b) == IF a > b THEN a ELSE b

\* "if session_id not in active_sessions: active_sessions[session_id] = {...}"
SessionEvents == IF in_store THEN events ELSE NewSession.events
SessionStatus == IF in_store THEN status ELSE NewSession.status

\* the except branch of generate_with_o3_research ends the task ("return")
AbortsOnErrorNever(v) == FALSE
AbortsOnError(v) == v \in LoopVariants

\* "Create PDFs", "Create ZIP package", the done event and status = "completed":
\* one stretch without an await.  A rendering call that raises ends the task
\* there, after the first n documents were written.
FinishIfConnected(log) ==
    /\ connected
    /\ cpu' = "idle"
    /\ files' = files \cup GeneratedFiles(variant)
    /\ events' = AppendEvent(log, DoneEvent)
    /\ status' = "completed"
    /\ genpc' = "done"
Finish(log) ==
    /\ cpu' = "idle"
    /\ \E ok \in BOOLEAN :
        IF ok
        THEN /\ files' = files \cup GeneratedFiles(variant)
             /\ events' = AppendEvent(log, DoneEvent)
             /\ status' = "completed"
             /\ genpc' = "done"
        ELSE /\ \E n \in 0..3 : files' = files \cup DocFiles(n)
             /\ events' = log
             /\ status' = status
             /\ genpc' = "crashed"

\* the except branch: the error event, then either the return or the fallback
\* content followed by rendering
Fail(log) ==
    IF AbortsOnError(variant)
    THEN /\ events' = AppendEvent(log, ErrorEvent)
         /\ genpc' = "aborted"
         /\ cpu' = "idle"
         /\ UNCHANGED <<files, status>>
    ELSE Finish(AppendEvent(log, ErrorEvent))

\* ---- generation task: main.py (simulated reasoning, real searches) ---------
\* first run of the task: session entry, first chunk of thinking_text, sleep(0.1)
GenStartMain ==
    /\ cpu = "idle"
    /\ variant = "main"
    /\ genpc = "created"
    /\ in_store' = TRUE
    /\ status' = SessionStatus
    /\ \E n \in 1..MaxWords :
        /\ words' = n - 1
        /\ events' = AppendEvent(SessionEvents, ThinkingEvent)
    /\ genpc' = "sleep_word"
    /\ UNCHANGED <<socketVars, callVars, variant, download, cpu, upVars, files, queries, messages_len, last_content,
                   tool_calls, turns, attempts, search_failed, model_failed, raised,
                   relayVars>>

\* after sleep(0.1): the next chunk, or the first "Searching: ..." thinking event
\* and the await of web_search
GenWord ==
    /\ cpu = "idle"
    /\ variant = "main"
    /\ genpc = "sleep_word"
    /\ events' = AppendEvent(events, ThinkingEvent)
    /\ IF words > 0
       THEN words' = words - 1 /\ genpc' = "sleep_word"
       ELSE words' = words /\ genpc' = "searching"
    /\ UNCHANGED <<socketVars, callVars, variant, download, cpu, upVars, files, in_store, status, queries, messages_len,
                   last_content, tool_calls, turns, attempts, search_failed,
                   model_failed, raised, relayVars>>

\* web_search returns (its own except turns a failure into a "Search Error"
\* result): the search event, then sleep(0.5)
GenSearched ==
    /\ cpu = "idle"
    /\ variant = "main"
    /\ genpc = "searching"
    /\ \E ok \in BOOLEAN : search_failed' = (search_failed \/ ~ok)
    /\ events' = AppendEvent(events, SearchEvent)
    /\ queries' = queries + 1
    /\ genpc' = "sleep_search"
    /\ UNCHANGED <<socketVars, callVars, variant, download, cpu, upVars, files, in_store, status, words, messages_len,
                   last_content, tool_calls, turns, attempts, model_failed, raised,
                   relayVars>>

\* after sleep(0.5): the next query, or the last thinking event and the documents
GenAfterSearch ==
    /\ cpu = "idle"
    /\ variant = "main"
    /\ genpc = "sleep_search"
    /\ IF queries < NumSearchQueries
       THEN /\ events' = AppendEvent(events, ThinkingEvent)
            /\ genpc' = "searching"
            /\ UNCHANGED <<cpu, files, status>>
       ELSE Finish(AppendEvent(events, ThinkingEvent))
    /\ UNCHANGED <<socketVars, callVars, variant, download, upVars, in_store, words, queries, messages_len, last_content,
                   tool_calls, turns, attempts, search_failed, model_failed, raised,
                   relayVars>>

\* the try body raises when the task is resumed, in the web_search call or
\* while the prompt is built from the results: "except Exception as e"
GenRaise ==
    /\ cpu = "idle"
    /\ variant = "main"
    /\ \/ genpc = "searching"
       \/ genpc = "sleep_search" /\ queries = NumSearchQueries
    /\ raised' = TRUE
    /\ Fail(events)
    /\ UNCHANGED <<socketVars, callVars, variant, download, upVars, in_store, words, queries, messages_len, last_content,
                   tool_calls, turns, attempts, search_failed, model_failed, relayVars>>

\* ---- generation task: main_o3.py / main_backup.py (model loop) --------------
\* main_backup.py wraps the o3 request in a try whose except asks gpt-4o
HasFallback(v) == v = "backup"

\* the create() calls of one turn, by whether the primary and the secondary
\* request are accepted
Attempts(v, primaryOk, secondaryOk) ==
    IF primaryOk THEN << <<"o3", "accepted">> >>
    ELSE IF ~HasFallback(v) THEN << <<"o3", "rejected">> >>
    ELSE << <<"o3", "rejected">>,
            <<"gpt-4o", IF secondaryOk THEN "accepted" ELSE "rejected">> >>

ToolNames == {"web_search", "other"}
Searches(tc) == Cardinality({k \in DOMAIN tc : tc[k] = "web_search"})
\* the tool calls one turn may carry, with at most room web_search calls
ToolSeqs(room) ==
    {tc \in UNION {[1..n -> ToolNames] : n \in 0..MaxTools} : Searches(tc) <= room}

\* events the provider's answers may still cause
Room == Max(0, MaxLog - Len(events))

\* where the loop goes after the assistant message was appended:
\* "if tool_calls: ... continue", the delimiter check, the len(messages) cap
AfterTurn(hasTools, content, len) ==
    IF hasTools THEN "tools"
    ELSE IF content = "full" THEN "render"
    ELSE IF len > IterationCap THEN "render"
    ELSE "request"

\* first run of the task: the session entry, then straight into the while loop
GenStartLoop ==
    /\ cpu = "idle"
    /\ variant \in LoopVariants
    /\ genpc = "created"
    /\ in_store' = TRUE
    /\ events' = SessionEvents
    /\ status' = SessionStatus
    /\ genpc' = "request"
    /\ cpu' = "gen"
    /\ UNCHANGED <<socketVars, callVars, variant, download, upVars, files, words, queries, messages_len, last_content,
                   tool_calls, turns, attempts, search_failed, model_failed, raised,
                   relayVars>>

\* openai_client.chat.completions.create raises (in main_backup.py: for o3 and
\* for gpt-4o): the outer except
GenRequestRejected ==
    /\ genpc = "request"
    /\ attempts' = Attempts(variant, FALSE, FALSE)
    /\ turns' = turns + 1
    /\ model_failed' = TRUE
    /\ Fail(events)
    /\ UNCHANGED <<socketVars, callVars, variant, download, upVars, in_store, words, queries, messages_len, last_content,
                   tool_calls, search_failed, raised, relayVars>>

\* the response stream raises after k content chunks were forwarded
GenStreamBroken ==
    /\ genpc = "request"
    /\ \E primaryOk \in BOOLEAN, k \in 0..Min(MaxChunks, Room) :
        /\ primaryOk \/ HasFallback(variant)
        /\ attempts' = Attempts(variant, primaryOk, TRUE)
        /\ Fail(AppendTimes(events, ThinkingEvent, k))
    /\ turns' = turns + 1
    /\ model_failed' = TRUE
    /\ UNCHANGED <<socketVars, callVars, variant, download, upVars, in_store, words, queries, messages_len, last_content,
                   tool_calls, search_failed, raised, relayVars>>

\* one model turn: the request, the stream (k content chunks, each a thinking
\* event; the tool calls), the assistant message and the loop's decision.
\* Only the first limit turns may be answered without the final documents.
GenTurn(limit) ==
    /\ genpc = "request"
    /\ \E primaryOk \in BOOLEAN, content \in {"none", "plain", "full"} :
       \E k \in 0..Max(1, Min(MaxChunks, Room)) :
       \E tc \in ToolSeqs(Max(0, Room - k)) :
        /\ primaryOk \/ HasFallback(variant)
        /\ (content = "none") = (k = 0)
        /\ k <= Room \/ (content = "full" /\ tc = <<>>)
        /\ turns < limit \/ (content = "full" /\ tc = <<>>)
        /\ attempts' = Attempts(variant, primaryOk, TRUE)
        /\ events' = AppendTimes(events, ThinkingEvent, k)
        /\ messages_len' = messages_len + 1
        /\ last_content' = IF content = "none" THEN last_content ELSE content
        /\ tool_calls' = tc
        /\ genpc' = AfterTurn(tc # <<>>, content, messages_len + 1)
    /\ turns' = turns + 1
    /\ cpu' = "gen"
    /\ UNCHANGED <<socketVars, callVars, variant, download, upVars, files, in_store, status, words, queries,
                   search_failed, model_failed, raised, relayVars>>

\* "for tool_call in tool_calls": a web_search call whose arguments parse awaits
\* web_search (json.loads or function_args["query"] raising lands in the outer
\* except), any other call is passed over; after the last one, "continue"
GenTool ==
    /\ genpc = "tools"
    /\ IF tool_calls = <<>>
       THEN /\ genpc' = "request" /\ cpu' = "gen"
            /\ UNCHANGED <<files, events, status, model_failed>>
       ELSE IF Head(tool_calls) = "web_search"
       THEN \E parsed \in BOOLEAN :
                IF parsed
                THEN /\ genpc' = "searching" /\ cpu' = "idle"
                     /\ UNCHANGED <<files, events, status, model_failed>>
                ELSE /\ Fail(events)
                     /\ model_failed' = TRUE
       ELSE /\ genpc' = "tools" /\ cpu' = "gen"
            /\ UNCHANGED <<files, events, status, model_failed>>
    /\ tool_calls' = IF tool_calls # <<>> /\ Head(tool_calls) # "web_search"
                     THEN Tail(tool_calls) ELSE tool_calls
    /\ UNCHANGED <<socketVars, callVars, variant, download, upVars, in_store, words, queries, messages_len,
                   last_content, turns, attempts, search_failed, raised, relayVars>>

\* web_search returns (results, or its "Search Error" result): the search event
\* and the tool message
GenToolResult ==
    /\ cpu = "idle"
    /\ variant \in LoopVariants
    /\ genpc = "searching"
    /\ \E ok \in BOOLEAN : search_failed' = (search_failed \/ ~ok)
    /\ events' = AppendEvent(events, SearchEvent)
    /\ messages_len' = messages_len + 1
    /\ tool_calls' = Tail(tool_calls)
    /\ genpc' = "tools"
    /\ cpu' = "gen"
    /\ UNCHANGED <<socketVars, callVars, variant, download, upVars, files, in_store, status, words, queries,
                   last_content, turns, attempts, model_failed, raised, relayVars>>

\* after the loop: the documents are parsed out of the last assistant content,
\* rendered and announced
GenRender ==
    /\ genpc = "render"
    /\ Finish(events)
    /\ UNCHANGED <<socketVars, callVars, variant, download, upVars, in_store, words, queries, messages_len, last_content,
                   tool_calls, turns, attempts, search_failed, model_failed, raised,
                   relayVars>>

\* ---- relay: stream_events.event_generator --------------------------------
\* main.py asks request.is_disconnected() at the top of every poll
ChecksDisconnect(v) == v = "main"
\* main.py: "if event_data is None or event_data == '': continue"
SkipsEvent(v, e) == v = "main" /\ e.data = ""
\* main.py: "break" after yielding a done or an error event
BreaksBatch(v, e) == v = "main" /\ e.type \in {"done", "error"}
\* where the batch ends: range(last_event_index, len(events)) is evaluated once,
\* "while last_event_index < len(events)" before every iteration
BatchEnd(v, end, log) == IF v = "backup" THEN Len(log) ELSE end
\* last_event_index once the batch is over: "last_event_index = len(events)"
\* after the for loop, or the counter the while loop has advanced itself
IndexAfterBatchStale(v, idx, log) == last_event_index
IndexAfterBatch(v, idx, log) == IF v = "backup" THEN idx ELSE Len(log)
\* "if session['status'] == 'completed': break"
RelayExitsAlways(st) == TRUE
RelayExits(st) == st = "completed"

\* the first index in from..end-1 whose event is yielded, or end
RECURSIVE NextToYield(_, _, _, _)
NextToYield(v, log, from, end) ==
    IF from >= end THEN end
    ELSE IF SkipsEvent(v, log[from + 1]) THEN NextToYield(v, log, from + 1, end)
    ELSE from

\* the batch is over at index idx: the index update and the status check
EndBatch(idx) ==
    /\ last_event_index' = IndexAfterBatch(variant, idx, events)
    /\ rpc' = IF RelayExits(status) THEN "exit" ELSE "sleep"
    /\ i' = 0
    /\ range_end' = 0
    /\ forwarded' = forwarded

\* the generator is suspended at the yield of the event at index j
YieldAt(j, end) ==
    /\ forwarded' = Append(forwarded, j)
    /\ i' = j
    /\ range_end' = end
    /\ last_event_index' = IF variant = "backup" THEN j ELSE last_event_index
    /\ rpc' = "yield"

\* a client opens /api/events/{session_id}: last_event_index = 0
RelayConnect ==
    /\ cpu = "idle"
    /\ variant \in SseVariants
    /\ rpc = "off"
    /\ rpc' = "poll"
    /\ last_event_index' = 0
    /\ UNCHANGED <<socketVars, callVars, variant, download, cpu, upVars, files, storeVars, genVars, connected, i,
                   range_end, forwarded>>

\* top of "while True": the disconnect check, the session lookup and the batch
\* up to its first yield (or, with nothing to send, up to the status check)
RelayPoll ==
    /\ cpu = "idle"
    /\ rpc = "poll"
    /\ IF ChecksDisconnect(variant) /\ ~connected
       THEN rpc' = "exit" /\ UNCHANGED <<last_event_index, i, range_end, forwarded>>
       ELSE IF ~in_store
       THEN rpc' = "sleep" /\ UNCHANGED <<last_event_index, i, range_end, forwarded>>
       ELSE LET end == Len(events)
                j == NextToYield(variant, events, last_event_index, end)
            IN  IF j < end THEN YieldAt(j, end) ELSE EndBatch(last_event_index)
    /\ UNCHANGED <<socketVars, callVars, variant, download, cpu, upVars, files, storeVars, genVars, connected>>

\* the consumer asks for the next item: the rest of the loop body after the
\* yield, then the next yield or the end of the batch
RelayResume ==
    /\ cpu = "idle"
    /\ rpc = "yield"
    /\ IF BreaksBatch(variant, events[i + 1])
       THEN EndBatch(i + 1)
       ELSE LET end == BatchEnd(variant, range_end, events)
                j == NextToYield(variant, events, i + 1, end)
            IN  IF j < end THEN YieldAt(j, end) ELSE EndBatch(i + 1)
    /\ UNCHANGED <<socketVars, callVars, variant, download, cpu, upVars, files, storeVars, genVars, connected>>

\* asyncio.sleep(0.5) (main_backup.py: 1) is over
RelayWake ==
    /\ cpu = "idle"
    /\ rpc = "sleep"
    /\ rpc' = "poll"
    /\ UNCHANGED <<socketVars, callVars, variant, download, cpu, upVars, files, storeVars, genVars, connected,
                   last_event_index, i, range_end, forwarded>>

\* the client of main.py's stream goes away
ClientDisconnect ==
    /\ cpu = "idle"
    /\ ChecksDisconnect(variant)
    /\ rpc \in {"poll", "yield", "sleep"}
    /\ connected
    /\ connected' = FALSE
    /\ UNCHANGED <<socketVars, callVars, variant, download, cpu, upVars, files, storeVars, genVars, rpc,
                   last_event_index, i, range_end, forwarded>>

\* ---- download endpoint ---------------------------------------------------------
\* the names a client asks for: a document, the archive of either naming, a
\* file that was never written
RequestedNames == {"Motion.pdf", "motion_packet.zip", "packet.zip", "missing.pdf"}

\* download_file: 404 unless temp_dir / session_id / filename exists (requests
\* are taken while the client's event stream is not open)
DownloadFile ==
    /\ cpu = "idle"
    /\ rpc \in {"off", "exit"}
    /\ \E name \in RequestedNames :
        download' = IF name \in files THEN "200" ELSE "404"
    /\ UNCHANGED <<socketVars, callVars, variant, cpu, upVars, files, storeVars, genVars, relayVars>>

\* ---- regular expressions: re.search over a text -------------------------------
\* A text is a sequence of symbols (characters; for the document splitter a
\* delimiter is one symbol).  Matches gives the ways a pattern can match at a
\* position in the order Python's backtracking matcher tries them, so that the
\* first one is the match re.search reports.
Digit == {"0", "1", "2", "3", "4", "5", "6", "7", "8", "9"}
UpperSeq ==
    <<"A", "B", "C", "D", "E", "F", "G", "H", "I", "J", "K", "L", "M",
      "N", "O", "P", "Q", "R", "S", "T", "U", "V", "W", "X", "Y", "Z">>
LowerSeq ==
    <<"a", "b", "c", "d", "e", "f", "g", "h", "i", "j", "k", "l", "m",
      "n", "o", "p", "q", "r", "s", "t", "u", "v", "w", "x", "y", "z">>
Upper == {UpperSeq[k] : k \in DOMAIN UpperSeq}
Lower == {LowerSeq[k] : k \in DOMAIN LowerSeq}
Letter == Upper \cup Lower
\* \s and the characters str.strip() removes
Space == {" ", "\t", "\n"}
\* a character and its other case (re.IGNORECASE)
Cases(c) ==
    {c} \cup {LowerSeq[k] : k \in {j \in DOMAIN UpperSeq : UpperSeq[j] = c}}
        \cup {UpperSeq[k] : k \in {j \in DOMAIN LowerSeq : LowerSeq[j] = c}}

OneOf(S) == [k |-> "in", s |-> S]
NoneOf(S) == [k |-> "notin", s |-> S]
AnySymbol == [k |-> "any"]
AtStart == [k |-> "start"]
Either(a, b) == [k |-> "alt", a |-> a, b |-> b]
Group(a) == [k |-> "group", a |-> a]
Greedy(a, lo, hi) ==
    [k |-> "repeat", a |-> a, lo |-> lo, hi |-> hi, many |-> FALSE, lazy |-> FALSE]
GreedyFrom(a, lo) ==
    [k |-> "repeat", a |-> a, lo |-> lo, hi |-> lo, many |-> TRUE, lazy |-> FALSE]
LazyFrom(a, lo) ==
    [k |-> "repeat", a |-> a, lo |-> lo, hi |-> lo, many |-> TRUE, lazy |-> TRUE]
RECURSIVE Cat(_)
Cat(rs) ==
    IF Len(rs) = 1 THEN rs[1]
    ELSE [k |-> "seq", a |-> rs[1], b |-> Cat(Tail(rs))]
\* a literal, compared without regard to case / exactly
Word(w) == Cat([j \in DOMAIN w |-> OneOf(Cases(w[j]))])
Exact(w) == Cat([j \in DOMAIN w |-> OneOf({w[j]})])

\* one way to match: e is the position after the match, g the bounds of group 1
Step(e) == [e |-> e, g |-> <<>>]
KeepGroup(g, rs) ==
    [j \in DOMAIN rs |-> [e |-> rs[j].e, g |-> IF rs[j].g # <<>> THEN rs[j].g ELSE g]]

RECURSIVE Matches(_, _, _), AfterEach(_, _, _), Repeat(_, _, _, _), RepeatEach(_, _, _, _)
Matches(r, t, p) ==
    CASE r.k = "in" ->
            IF p <= Len(t) /\ t[p] \in r.s THEN <<Step(p + 1)>> ELSE <<>>
      [] r.k = "notin" ->
            IF p <= Len(t) /\ t[p] \notin r.s THEN <<Step(p + 1)>> ELSE <<>>
      [] r.k = "any" -> IF p <= Len(t) THEN <<Step(p + 1)>> ELSE <<>>
      [] r.k = "start" -> IF p = 1 THEN <<Step(p)>> ELSE <<>>
      [] r.k = "seq" -> AfterEach(Matches(r.a, t, p), r.b, t)
      [] r.k = "alt" -> Matches(r.a, t, p) \o Matches(r.b, t, p)
      [] r.k = "group" ->
            LET rs == Matches(r.a, t, p)
            IN  [j \in DOMAIN rs |-> [e |-> rs[j].e, g |-> <<p, rs[j].e>>]]
      [] r.k = "repeat" -> Repeat(r, 0, t, p)
\* the second part of a sequence, tried after each way to match the first
AfterEach(rs, b, t) ==
    IF rs = <<>> THEN <<>>
    ELSE KeepGroup(Head(rs).g, Matches(b, t, Head(rs).e)) \o AfterEach(Tail(rs), b, t)
\* a repetition after n iterations: greedy tries one more first, lazy tries
\* to stop first
Repeat(r, n, t, p) ==
    LET more == IF r.many \/ n < r.hi
                THEN RepeatEach(SelectSeq(Matches(r.a, t, p), LAMBDA x : x.e > p),
                                r, n + 1, t)
                ELSE <<>>
        stop == IF n >= r.lo THEN <<Step(p)>> ELSE <<>>
    IN  IF r.lazy THEN stop \o more ELSE more \o stop
RepeatEach(rs, r, n, t) ==
    IF rs = <<>> THEN <<>>
    ELSE KeepGroup(Head(rs).g, Repeat(r, n, t, Head(rs).e)) \o RepeatEach(Tail(rs), r, n, t)

\* re.search: the first way to match at the leftmost position that has one
NoMatch == [s |-> 0, e |-> 0, g |-> <<>>]
RECURSIVE SearchFrom(_, _, _)
SearchFrom(r, t, p) ==
    IF p > Len(t) + 1 THEN NoMatch
    ELSE LET rs == Matches(r, t, p)
         IN  IF rs # <<>> THEN [s |-> p, e |-> rs[1].e, g |-> rs[1].g]
             ELSE SearchFrom(r, t, p + 1)
Search(r, t) == SearchFrom(r, t, 1)
Found(m) == m.s > 0
\* match.group(1)
Group1(t, m) == SubSeq(t, m.g[1], m.g[2] - 1)

\* str.strip()
RECURSIVE LStrip(_), RStrip(_)
LStrip(s) == IF s # <<>> /\ Head(s) \in Space THEN LStrip(Tail(s)) ELSE s
RStrip(s) ==
    IF s # <<>> /\ s[Len(s)] \in Space THEN RStrip(SubSeq(s, 1, Len(s) - 1)) ELSE s
StripNothing(s) == s
Strip(s) == RStrip(LStrip(s))

\* ---- parse_defendant_info ------------------------------------------------------
\* (?:defendant|respondent)[\s:]*([A-Z][a-z]+(?:\s+[A-Z][a-z]+)*)
Pat_name_1 ==
    Cat(<<Either(Word(<<"d", "e", "f", "e", "n", "d", "a", "n", "t">>),
      Word(<<"r", "e", "s", "p", "o", "n", "d", "e", "n", "t">>)),
      GreedyFrom(OneOf(Space \cup {":"}), 0), Group(Cat(<<OneOf(Letter),
      GreedyFrom(OneOf(Letter), 1), GreedyFrom(Cat(<<GreedyFrom(OneOf(Space),
      1), OneOf(Letter), GreedyFrom(OneOf(Letter), 1)>>), 0)>>))>>)
\* (?:United States v\.)\s*([A-Z][a-z]+(?:\s+[A-Z][a-z]+)*)
Pat_name_2 ==
    Cat(<<Word(<<"U", "n", "i", "t", "e", "d", " ", "S", "t", "a", "t", "e",
      "s", " ", "v", ".">>), GreedyFrom(OneOf(Space), 0),
      Group(Cat(<<OneOf(Letter), GreedyFrom(OneOf(Letter), 1),
      GreedyFrom(Cat(<<GreedyFrom(OneOf(Space), 1), OneOf(Letter),
      GreedyFrom(OneOf(Letter), 1)>>), 0)>>))>>)
\* (?:USA v\.)\s*([A-Z][a-z]+(?:\s+[A-Z][a-z]+)*)
Pat_name_3 ==
    Cat(<<Word(<<"U", "S", "A", " ", "v", ".">>), GreedyFrom(OneOf(Space),
      0), Group(Cat(<<OneOf(Letter), GreedyFrom(OneOf(Letter), 1),
      GreedyFrom(Cat(<<GreedyFrom(OneOf(Space), 1), OneOf(Letter),
      GreedyFrom(OneOf(Letter), 1)>>), 0)>>))>>)
\* (?:case\s+(?:no|number)[\.\:]?\s*)([0-9]{1,2}:[0-9]{2}[-cr]+[0-9]+)
Pat_case_number_1 ==
    Cat(<<Word(<<"c", "a", "s", "e">>), GreedyFrom(OneOf(Space), 1),
      Word(<<"n">>), Either(Word(<<"o">>), Word(<<"u", "m", "b", "e",
      "r">>)), Greedy(OneOf({".", ":"}), 0, 1), GreedyFrom(OneOf(Space), 0),
      Group(Cat(<<Greedy(OneOf(Digit), 1, 2), Word(<<":">>),
      Greedy(OneOf(Digit), 2, 2), GreedyFrom(OneOf({"-", "c", "C", "r",
      "R"}), 1), GreedyFrom(OneOf(Digit), 1)>>))>>)
\* (?:criminal\s+no[\.\:]?\s*)([0-9]{1,2}:[0-9]{2}[-cr]+[0-9]+)
Pat_case_number_2 ==
    Cat(<<Word(<<"c", "r", "i", "m", "i", "n", "a", "l">>),
      GreedyFrom(OneOf(Space), 1), Word(<<"n", "o">>), Greedy(OneOf({".",
      ":"}), 0, 1), GreedyFrom(OneOf(Space), 0),
      Group(Cat(<<Greedy(OneOf(Digit), 1, 2), Word(<<":">>),
      Greedy(OneOf(Digit), 2, 2), GreedyFrom(OneOf({"-", "c", "C", "r",
      "R"}), 1), GreedyFrom(OneOf(Digit), 1)>>))>>)
\* ([0-9]{1,2}:[0-9]{2}[-cr]+[0-9]+)
Pat_case_number_3 ==
    Group(Cat(<<Greedy(OneOf(Digit), 1, 2), Word(<<":">>),
      Greedy(OneOf(Digit), 2, 2), GreedyFrom(OneOf({"-", "c", "C", "r",
      "R"}), 1), GreedyFrom(OneOf(Digit), 1)>>))
\* (?:(?:United States )?District Court for the\s+)([^,\n]+)
Pat_district_1 ==
    Cat(<<Greedy(Word(<<"U", "n", "i", "t", "e", "d", " ", "S", "t", "a",
      "t", "e", "s", " ">>), 0, 1), Word(<<"D", "i", "s", "t", "r", "i", "c",
      "t", " ", "C", "o", "u", "r", "t", " ", "f", "o", "r", " ", "t", "h",
      "e">>), GreedyFrom(OneOf(Space), 1), Group(GreedyFrom(NoneOf({",",
      "\n"}), 1))>>)
\* (?:USDC\s+)([A-Z][a-z]+(?:\s+[A-Z][a-z]+)*)
Pat_district_2 ==
    Cat(<<Word(<<"U", "S", "D", "C">>), GreedyFrom(OneOf(Space), 1),
      Group(Cat(<<OneOf(Letter), GreedyFrom(OneOf(Letter), 1),
      GreedyFrom(Cat(<<GreedyFrom(OneOf(Space), 1), OneOf(Letter),
      GreedyFrom(OneOf(Letter), 1)>>), 0)>>))>>)
\* (?:District of\s+)([A-Z][a-z]+(?:\s+[A-Z][a-z]+)*)
Pat_district_3 ==
    Cat(<<Word(<<"D", "i", "s", "t", "r", "i", "c", "t", " ", "o", "f">>),
      GreedyFrom(OneOf(Space), 1), Group(Cat(<<OneOf(Letter),
      GreedyFrom(OneOf(Letter), 1), GreedyFrom(Cat(<<GreedyFrom(OneOf(Space),
      1), OneOf(Letter), GreedyFrom(OneOf(Letter), 1)>>), 0)>>))>>)
\* (?:sentenced to\s+)([0-9]+)\s*months
Pat_sentence_months_1 ==
    Cat(<<Word(<<"s", "e", "n", "t", "e", "n", "c", "e", "d", " ", "t",
      "o">>), GreedyFrom(OneOf(Space), 1), Group(GreedyFrom(OneOf(Digit),
      1)), GreedyFrom(OneOf(Space), 0), Word(<<"m", "o", "n", "t", "h",
      "s">>)>>)
\* (?:term of\s+)([0-9]+)\s*months
Pat_sentence_months_2 ==
    Cat(<<Word(<<"t", "e", "r", "m", " ", "o", "f">>),
      GreedyFrom(OneOf(Space), 1), Group(GreedyFrom(OneOf(Digit), 1)),
      GreedyFrom(OneOf(Space), 0), Word(<<"m", "o", "n", "t", "h", "s">>)>>)
\* ([0-9]+)\s*months?\s+(?:imprisonment|custody)
Pat_sentence_months_3 ==
    Cat(<<Group(GreedyFrom(OneOf(Digit), 1)), GreedyFrom(OneOf(Space), 0),
      Word(<<"m", "o", "n", "t", "h">>), Greedy(Word(<<"s">>), 0, 1),
      GreedyFrom(OneOf(Space), 1), Either(Word(<<"i", "m", "p", "r", "i",
      "s", "o", "n", "m", "e", "n", "t">>), Word(<<"c", "u", "s", "t", "o",
      "d", "y">>))>>)
\* (?:served\s+)([0-9]+)\s*months
Pat_months_served_1 ==
    Cat(<<Word(<<"s", "e", "r", "v", "e", "d">>), GreedyFrom(OneOf(Space),
      1), Group(GreedyFrom(OneOf(Digit), 1)), GreedyFrom(OneOf(Space), 0),
      Word(<<"m", "o", "n", "t", "h", "s">>)>>)
\* (?:time served[\:\s]*)([0-9]+)\s*months
Pat_months_served_2 ==
    Cat(<<Word(<<"t", "i", "m", "e", " ", "s", "e", "r", "v", "e", "d">>),
      GreedyFrom(OneOf(Space \cup {":"}), 0), Group(GreedyFrom(OneOf(Digit),
      1)), GreedyFrom(OneOf(Space), 0), Word(<<"m", "o", "n", "t", "h",
      "s">>)>>)
\* ([0-9]+)\s*months?\s+served
Pat_months_served_3 ==
    Cat(<<Group(GreedyFrom(OneOf(Digit), 1)), GreedyFrom(OneOf(Space), 0),
      Word(<<"m", "o", "n", "t", "h">>), Greedy(Word(<<"s">>), 0, 1),
      GreedyFrom(OneOf(Space), 1), Word(<<"s", "e", "r", "v", "e", "d">>)>>)
\* (?:lost\s+)([0-9]+)\s*(?:days?|months?)\s+(?:of\s+)?(?:good\s+time|credit)
Pat_credits_lost_1 ==
    Cat(<<Word(<<"l", "o", "s", "t">>), GreedyFrom(OneOf(Space), 1),
      Group(GreedyFrom(OneOf(Digit), 1)), GreedyFrom(OneOf(Space), 0),
      Either(Cat(<<Word(<<"d", "a", "y">>), Greedy(Word(<<"s">>), 0, 1)>>),
      Cat(<<Word(<<"m", "o", "n", "t", "h">>), Greedy(Word(<<"s">>), 0,
      1)>>)), GreedyFrom(OneOf(Space), 1), Greedy(Cat(<<Word(<<"o", "f">>),
      GreedyFrom(OneOf(Space), 1)>>), 0, 1), Either(Cat(<<Word(<<"g", "o",
      "o", "d">>), GreedyFrom(OneOf(Space), 1), Word(<<"t", "i", "m",
      "e">>)>>), Word(<<"c", "r", "e", "d", "i", "t">>))>>)
\* (?:credits?\s+lost[\:\s]*)([0-9]+)
Pat_credits_lost_2 ==
    Cat(<<Word(<<"c", "r", "e", "d", "i", "t">>), Greedy(Word(<<"s">>), 0,
      1), GreedyFrom(OneOf(Space), 1), Word(<<"l", "o", "s", "t">>),
      GreedyFrom(OneOf(Space \cup {":"}), 0), Group(GreedyFrom(OneOf(Digit),
      1))>>)
\* ([0-9]+)\s*(?:days?|months?)\s+(?:good\s+time\s+)?lost
Pat_credits_lost_3 ==
    Cat(<<Group(GreedyFrom(OneOf(Digit), 1)), GreedyFrom(OneOf(Space), 0),
      Either(Cat(<<Word(<<"d", "a", "y">>), Greedy(Word(<<"s">>), 0, 1)>>),
      Cat(<<Word(<<"m", "o", "n", "t", "h">>), Greedy(Word(<<"s">>), 0,
      1)>>)), GreedyFrom(OneOf(Space), 1), Greedy(Cat(<<Word(<<"g", "o", "o",
      "d">>), GreedyFrom(OneOf(Space), 1), Word(<<"t", "i", "m", "e">>),
      GreedyFrom(OneOf(Space), 1)>>), 0, 1), Word(<<"l", "o", "s", "t">>)>>)
\* (?:original\s+release\s+date[\:\s]*)([0-9]{1,2}\/[0-9]{1,2}\/[0-9]{4})
Pat_original_release_date_1 ==
    Cat(<<Word(<<"o", "r", "i", "g", "i", "n", "a", "l">>),
      GreedyFrom(OneOf(Space), 1), Word(<<"r", "e", "l", "e", "a", "s",
      "e">>), GreedyFrom(OneOf(Space), 1), Word(<<"d", "a", "t", "e">>),
      GreedyFrom(OneOf(Space \cup {":"}), 0),
      Group(Cat(<<Greedy(OneOf(Digit), 1, 2), Word(<<"/">>),
      Greedy(OneOf(Digit), 1, 2), Word(<<"/">>), Greedy(OneOf(Digit), 4,
      4)>>))>>)
\* (?:scheduled\s+release[\:\s]*)([0-9]{1,2}\/[0-9]{1,2}\/[0-9]{4})
Pat_original_release_date_2 ==
    Cat(<<Word(<<"s", "c", "h", "e", "d", "u", "l", "e", "d">>),
      GreedyFrom(OneOf(Space), 1), Word(<<"r", "e", "l", "e", "a", "s",
      "e">>), GreedyFrom(OneOf(Space \cup {":"}), 0),
      Group(Cat(<<Greedy(OneOf(Digit), 1, 2), Word(<<"/">>),
      Greedy(OneOf(Digit), 1, 2), Word(<<"/">>), Greedy(OneOf(Digit), 4,
      4)>>))>>)
\* (?:release\s+date[\:\s]*)([0-9]{1,2}\/[0-9]{1,2}\/[0-9]{4})
Pat_original_release_date_3 ==
    Cat(<<Word(<<"r", "e", "l", "e", "a", "s", "e">>),
      GreedyFrom(OneOf(Space), 1), Word(<<"d", "a", "t", "e">>),
      GreedyFrom(OneOf(Space \cup {":"}), 0),
      Group(Cat(<<Greedy(OneOf(Digit), 1, 2), Word(<<"/">>),
      Greedy(OneOf(Digit), 1, 2), Word(<<"/">>), Greedy(OneOf(Digit), 4,
      4)>>))>>)
\* (?:new\s+release\s+date[\:\s]*)([0-9]{1,2}\/[0-9]{1,2}\/[0-9]{4})
Pat_new_release_date_1 ==
    Cat(<<Word(<<"n", "e", "w">>), GreedyFrom(OneOf(Space), 1), Word(<<"r",
      "e", "l", "e", "a", "s", "e">>), GreedyFrom(OneOf(Space), 1),
      Word(<<"d", "a", "t", "e">>), GreedyFrom(OneOf(Space \cup {":"}), 0),
      Group(Cat(<<Greedy(OneOf(Digit), 1, 2), Word(<<"/">>),
      Greedy(OneOf(Digit), 1, 2), Word(<<"/">>), Greedy(OneOf(Digit), 4,
      4)>>))>>)
\* (?:revised\s+release[\:\s]*)([0-9]{1,2}\/[0-9]{1,2}\/[0-9]{4})
Pat_new_release_date_2 ==
    Cat(<<Word(<<"r", "e", "v", "i", "s", "e", "d">>),
      GreedyFrom(OneOf(Space), 1), Word(<<"r", "e", "l", "e", "a", "s",
      "e">>), GreedyFrom(OneOf(Space \cup {":"}), 0),
      Group(Cat(<<Greedy(OneOf(Digit), 1, 2), Word(<<"/">>),
      Greedy(OneOf(Digit), 1, 2), Word(<<"/">>), Greedy(OneOf(Digit), 4,
      4)>>))>>)
\* (?:projected\s+release[\:\s]*)([0-9]{1,2}\/[0-9]{1,2}\/[0-9]{4})
Pat_new_release_date_3 ==
    Cat(<<Word(<<"p", "r", "o", "j", "e", "c", "t", "e", "d">>),
      GreedyFrom(OneOf(Space), 1), Word(<<"r", "e", "l", "e", "a", "s",
      "e">>), GreedyFrom(OneOf(Space \cup {":"}), 0),
      Group(Cat(<<Greedy(OneOf(Digit), 1, 2), Word(<<"/">>),
      Greedy(OneOf(Digit), 1, 2), Word(<<"/">>), Greedy(OneOf(Digit), 4,
      4)>>))>>)

\* the patterns table of main.py
PatternsMain ==
    [name |->
        <<Pat_name_1, Pat_name_2, Pat_name_3>>,
     case_number |->
        <<Pat_case_number_1, Pat_case_number_3>>,
     district |->
        <<Pat_district_1, Pat_district_3>>]
\* the patterns table of main_o3.py
PatternsO3 ==
    [name |->
        <<Pat_name_1, Pat_name_2, Pat_name_3>>,
     case_number |->
        <<Pat_case_number_1, Pat_case_number_3>>,
     district |->
        <<Pat_district_1, Pat_district_3>>]
\* the patterns table of main_backup.py
PatternsBackup ==
    [name |->
        <<Pat_name_1, Pat_name_2, Pat_name_3>>,
     case_number |->
        <<Pat_case_number_1, Pat_case_number_3>>,
     district |->
        <<Pat_district_1, Pat_district_3>>,
     sentence_months |->
        <<Pat_sentence_months_1, Pat_sentence_months_3>>,
     months_served |->
        <<Pat_months_served_1, Pat_months_served_3>>,
     credits_lost |->
        <<Pat_credits_lost_1, Pat_credits_lost_3>>,
     original_release_date |->
        <<Pat_original_release_date_1, Pat_original_release_date_3>>,
     new_release_date |->
        <<Pat_new_release_date_1, Pat_new_release_date_3>>]
\* the patterns table of main_enhanced.py
PatternsEnhanced ==
    [name |->
        <<Pat_name_1, Pat_name_2, Pat_name_3>>,
     case_number |->
        <<Pat_case_number_1, Pat_case_number_2, Pat_case_number_3>>,
     district |->
        <<Pat_district_1, Pat_district_2, Pat_district_3>>,
     sentence_months |->
        <<Pat_sentence_months_1, Pat_sentence_months_2, Pat_sentence_months_3>>,
     months_served |->
        <<Pat_months_served_1, Pat_months_served_2, Pat_months_served_3>>,
     credits_lost |->
        <<Pat_credits_lost_1, Pat_credits_lost_2, Pat_credits_lost_3>>,
     original_release_date |->
        <<Pat_original_release_date_1, Pat_original_release_date_2, Pat_original_release_date_3>>,
     new_release_date |->
        <<Pat_new_release_date_1, Pat_new_release_date_2, Pat_new_release_date_3>>]

Patterns(v) ==
    CASE v = "main" -> PatternsMain
      [] v = "o3" -> PatternsO3
      [] v = "backup" -> PatternsBackup
      [] v = "enhanced" -> PatternsEnhanced

\* the attributes of DefendantInfo
Fields ==
    {"name", "case_number", "district", "sentence_months", "months_served",
     "credits_lost", "original_release_date", "new_release_date"}
UNKNOWN == <<"U", "N", "K", "N", "O", "W", "N">>
\* DefendantInfo(): every attribute starts as "UNKNOWN"
DefendantInfoBlank == [f \in Fields |-> <<>>]
DefendantInfo == [f \in Fields |-> UNKNOWN]

\* "for pattern in field_patterns: match = re.search(...); if match: ...; break"
RECURSIVE EarliestMatch(_, _)
EarliestMatch(ps, t) ==
    IF ps = <<>> THEN NoMatch
    ELSE LET m == Search(Head(ps), t)
             n == EarliestMatch(Tail(ps), t)
         IN  IF Found(m) /\ (~Found(n) \/ m.s <= n.s) THEN m ELSE n
RECURSIVE FirstMatch(_, _)
FirstMatch(ps, t) ==
    IF ps = <<>> THEN NoMatch
    ELSE LET m == Search(Head(ps), t)
         IN  IF Found(m) THEN m ELSE FirstMatch(Tail(ps), t)

\* the loop over patterns.items(): setattr(info, field, match.group(1).strip())
ParseWith(table, t) ==
    [f \in Fields |->
        IF f \in DOMAIN table /\ Found(FirstMatch(table[f], t))
        THEN Strip(Group1(t, FirstMatch(table[f], t)))
        ELSE DefendantInfo[f]]
parse_defendant_info(v, t) == ParseWith(Patterns(v), t)

\* ---- texts given to parse_defendant_info ---------------------------------------
\* the case line of the test exhibit (create_test_exhibits.py)
CaseLine ==
    <<"C", "a", "s", "e", " ", "N", "o", ":", " ", "1", ":", "2", "0", "-",
      "c", "r", "-", "0", "0", "4", "5", "6", "-", "D", "E", "F">>
\* a caption with a docket number that has no "Case No" before it
CaptionLine ==
    <<"U", "S", "A", " ", "v", ".", " ", "L", "e", "e", " ", "3", ":", "3",
      "3", "-", "c", "r", "-", "1", " ">>
\* "Criminal No. 2:21-cr-7 "
CriminalNo ==
    <<"C", "r", "i", "m", "i", "n", "a", "l", " ", "N", "o", ".", " ", "2",
      ":", "2", "1", "-", "c", "r", "-", "7", " ">>
\* a court line with a blank before the line break
CourtLine ==
    <<"D", "i", "s", "t", "r", "i", "c", "t", " ", "C", "o", "u", "r", "t",
      " ", "f", "o", "r", " ", "t", "h", "e", " ", "O", "h", "i", "o", " ",
      "\n">>
\* "Defendant: Maria Lopez\n"
DefendantLine ==
    <<"D", "e", "f", "e", "n", "d", "a", "n", "t", ":", " ", "M", "a", "r",
      "i", "a", " ", "L", "o", "p", "e", "z", "\n">>
\* "served 42 months "
ServedLine ==
    <<"s", "e", "r", "v", "e", "d", " ", "4", "2", " ", "m", "o", "n", "t",
      "h", "s", " ">>
\* a fragment no pattern matches
NoData ==
    <<"n", "o", " ", "d", "a", "t", "a", " ">>
Fragments ==
    <<CaseLine, CaptionLine, CriminalNo, CourtLine, DefendantLine, ServedLine, NoData>>

\* ---- the document splitter (the end of generate_with_o3_research) -------------
\* Here a text is a sequence of words, line breaks and delimiters, a delimiter
\* being one symbol.
Docs == {"motion", "memo", "declaration"}
StartOf(d) ==
    CASE d = "motion" -> "===MOTION START==="
      [] d = "memo" -> "===MEMO START==="
      [] d = "declaration" -> "===DECL START==="
EndOf(d) ==
    CASE d = "motion" -> "===MOTION END==="
      [] d = "memo" -> "===MEMO END==="
      [] d = "declaration" -> "===DECL END==="
\* r'===MOTION START===(.*?)===MOTION END===' with re.DOTALL
SplitPattern(d) ==
    Cat(<<Exact(<<StartOf(d)>>), Group(LazyFrom(AnySymbol, 0)), Exact(<<EndOf(d)>>)>>)

\* the text used for a document whose block was not found
Placeholder(v, d) ==
    CASE v \in {"main", "o3"} ->
            (CASE d = "motion" -> <<"Motion could not be generated with O3 reasoning">>
               [] d = "memo" -> <<"Memo could not be generated with O3 reasoning">>
               [] d = "declaration" ->
                    <<"Declaration could not be generated with O3 reasoning">>)
      [] v = "backup" ->
            (CASE d = "motion" -> <<"Motion could not be generated">>
               [] d = "memo" -> <<"Memo could not be generated">>
               [] d = "declaration" -> <<"Declaration could not be generated">>)
      [] v = "enhanced" ->
            (CASE d = "motion" -> <<"Motion document could not be generated.">>
               [] d = "memo" -> <<"Memorandum could not be generated.">>
               [] d = "declaration" -> <<"Declaration could not be generated.">>)
\* main_enhanced.py: "if content: ... else: documents =
\* generate_enhanced_fallback_documents(defendant_info, research_data)"
UsesFallback(v, content) == v = "enhanced" /\ content = <<>>
FallbackDocument(d) == <<"fallback", d>>

\* documents = {'motion': motion_match.group(1).strip() if motion_match else
\* "Motion could not be generated ...", ...}
SplitDocuments(v, content) ==
    [d \in Docs |->
        IF UsesFallback(v, content) THEN FallbackDocument(d)
        ELSE IF Found(Search(SplitPattern(d), content))
        THEN Strip(Group1(content, Search(SplitPattern(d), content)))
        ELSE Placeholder(v, d)]

\* ---- responses given to the splitter -------------------------------------------
\* symbols of a block's body besides its delimiters
MaxBody == 2
\* a body: words (written "w" until the block is made) and line breaks
RECURSIVE BodiesOf(_)
BodiesOf(n) ==
    IF n = 0 THEN {<<>>}
    ELSE BodiesOf(n - 1) \cup {Append(b, x) : b \in BodiesOf(n - 1), x \in {"w", "\n"}}
Bodies == BodiesOf(MaxBody)
\* the body with document d's own words in it
BodyFor(d, b) == [j \in DOMAIN b |-> IF b[j] = "w" THEN d ELSE b[j]]
\* how the model may have written the block of a document
Shapes == {"full", "twice", "no_start", "no_end", "reversed", "malformed", "absent"}
Block(d, shape, b) ==
    CASE shape = "full" -> <<StartOf(d)>> \o BodyFor(d, b) \o <<EndOf(d)>>
      [] shape = "twice" ->
            <<StartOf(d)>> \o BodyFor(d, b) \o <<EndOf(d), StartOf(d), "again", EndOf(d)>>
      [] shape = "no_start" -> BodyFor(d, b) \o <<EndOf(d)>>
      [] shape = "no_end" -> <<StartOf(d)>> \o BodyFor(d, b)
      [] shape = "reversed" -> <<EndOf(d)>> \o BodyFor(d, b) \o <<StartOf(d)>>
      [] shape = "malformed" -> <<"===START===">> \o BodyFor(d, b) \o <<EndOf(d)>>
      [] shape = "absent" -> <<>>
Responses ==
    {Block("motion", sh["motion"], b) \o Block("memo", sh["memo"], b)
        \o Block("declaration", sh["declaration"], b) :
            sh \in [Docs -> Shapes], b \in Bodies}

\* ---- create_pdf_document -------------------------------------------------------
\* content.split('\n\n'): cut at each "\n\n", from the left
RECURSIVE SplitParagraphs(_)
SplitParagraphs(content) ==
    LET cuts == {j \in 1..(Len(content) - 1) : content[j] = "\n" /\ content[j + 1] = "\n"}
    IN  IF cuts = {} THEN <<content>>
        ELSE LET j == CHOOSE x \in cuts : \A y \in cuts : x <= y
             IN  <<SubSeq(content, 1, j - 1)>>
                    \o SplitParagraphs(SubSeq(content, j + 2, Len(content)))
\* str.isupper(): some cased character, and no lower-case one
IsUpper(s) ==
    /\ \E j \in DOMAIN s : s[j] \in Upper
    /\ \A j \in DOMAIN s : s[j] \notin Lower
\* r'^\s*[IVX]+\.'
HeadingPattern ==
    Cat(<<AtStart, GreedyFrom(OneOf(Space), 0), GreedyFrom(OneOf({"I", "V", "X"}), 1),
          OneOf({"."})>>)
\* re.match: a match at the start of the text
Match(r, t) == Matches(r, t, 1) # <<>>
\* styles['Heading2'] or styles['Normal']; main.py and main_o3.py know only Normal
StyleOf(v, text) ==
    IF v \in {"backup", "enhanced"} /\ (IsUpper(text) \/ Match(HeadingPattern, text))
    THEN "Heading2"
    ELSE "Normal"
Paragraph(text, style) == [flowable |-> "Paragraph", text |-> text, style |-> style]
\* Spacer(1, 12)
Spacer == [flowable |-> "Spacer", width |-> 1, height |-> 12]
\* "if para.strip():" fails
NeverBlank(para) == FALSE
IsBlank(para) == Strip(para) = <<>>
\* the loop over paragraphs, appending to story
RECURSIVE Story(_, _)
Story(v, paragraphs) ==
    IF paragraphs = <<>> THEN <<>>
    ELSE LET para == Head(paragraphs)
         IN  (IF IsBlank(para) THEN <<>>
              ELSE <<Paragraph(Strip(para), StyleOf(v, Strip(para))), Spacer>>)
                \o Story(v, Tail(paragraphs))
\* the story handed to doc.build
create_pdf_document(v, content) == Story(v, SplitParagraphs(content))

\* ---- document bodies given to create_pdf_document ------------------------------
\* characters of a body
MaxContent == 4
BodyChars == {"I", "b", ".", " ", "\n"}
RECURSIVE ContentsOf(_)
ContentsOf(n) ==
    IF n = 0 THEN {<<>>}
    ELSE ContentsOf(n - 1) \cup {Append(c, x) : c \in ContentsOf(n - 1), x \in BodyChars}
Contents == ContentsOf(MaxContent)

\* ---- download_file: the content type of the answer -----------------------------
\* str.endswith
EndsWith(s, suffix) ==
    /\ Len(suffix) <= Len(s)
    /\ SubSeq(s, Len(s) - Len(suffix) + 1, Len(s)) = suffix
DotPdf == <<".", "p", "d", "f">>
DotZip == <<".", "z", "i", "p">>
\* media_type of the FileResponse
MediaType(v, filename) ==
    CASE v \in {"main", "enhanced"} ->
            IF EndsWith(filename, DotPdf) THEN "application/pdf"
            ELSE IF EndsWith(filename, DotZip) THEN "application/zip"
            ELSE "application/octet-stream"
      [] v = "o3" -> "application/octet-stream"
      [] v = "backup" ->
            IF EndsWith(filename, DotPdf) THEN "application/pdf" ELSE "application/zip"
\* the answer to a download request, the file being there or not
download_file(v, filename, exists) ==
    IF exists THEN [status |-> "200", media_type |-> MediaType(v, filename)]
    ELSE [status |-> "404", media_type |-> "application/json"]

\* ---- file names asked of download_file -----------------------------------------
\* parts of a file name after its first character
MaxParts == 2
NameParts == {DotPdf, DotZip, <<".", "t", "x", "t">>, <<"b">>}
RECURSIVE NamesOf(_)
NamesOf(n) ==
    IF n = 0 THEN {<<"a">>}
    ELSE NamesOf(n - 1) \cup {f \o part : f \in NamesOf(n - 1), part \in NameParts}
FileNames == NamesOf(MaxParts)

\* ---- main_enhanced.py: research progress over WebSockets -------------------
MaxConnections == 2
MaxBroadcasts == 2
Connections == 1..MaxConnections
\* the session ids of the uploads in progress and of the /ws/research/ URLs
SessionIds == {"A", "B"}

\* the message broadcast_progress builds; data stands for progress.to_dict(),
\* told apart by the ordinal of the call within its session
ProgressMessage(session_id, n) ==
    [type |-> "research_progress", session_id |-> session_id, data |-> n]

\* a broadcast_progress call that is not running
NoBroadcast(n) ==
    [pc |-> "idle", n |-> n, k |-> 0, connection |-> 0, disconnected |-> <<>>,
     audience |-> {}]

\* active_connections: List[WebSocket] = [], no client yet, no call yet
NoSockets ==
    /\ active_connections = <<>>
    /\ sockets = [c \in Connections |-> [state |-> "none", session_id |-> "none"]]
    /\ inbox = [c \in Connections |-> {}]
    /\ broadcasts = [s \in SessionIds |-> NoBroadcast(0)]

\* list.remove(x): the list without the first x; the call raises ValueError
\* when x is not in the list
Remove(list, x) ==
    LET at == CHOOSE j \in 1..Len(list) :
                  list[j] = x /\ \A h \in 1..(j - 1) : list[h] # x
    IN SubSeq(list, 1, at - 1) \o SubSeq(list, at + 1, Len(list))

InList(list, x) == \E j \in 1..Len(list) : list[j] = x

\* for conn in disconnected: active_connections.remove(conn)
\* returns the list when the loop stopped and whether it ran to its end
RECURSIVE RemoveDisconnected(_, _)
RemoveDisconnected(list, disconnected) ==
    IF disconnected = <<>> THEN [list |-> list, raised |-> FALSE]
    ELSE IF ~InList(list, Head(disconnected)) THEN [list |-> list, raised |-> TRUE]
    ELSE RemoveDisconnected(Remove(list, Head(disconnected)), Tail(disconnected))

\* websocket_endpoint up to its receive loop: accept, then append to the list
WsAccept ==
    \E c \in Connections, s \in SessionIds :
        /\ variant = "enhanced"
        /\ sockets[c].state = "none"
        /\ sockets' = [sockets EXCEPT ![c] = [state |-> "open", session_id |-> s]]
        /\ active_connections' = Append(active_connections, c)
        /\ UNCHANGED <<inbox, broadcasts, variant, serverVars, callVars>>

\* the client goes away: receive_text will raise WebSocketDisconnect, and a
\* send_json to this socket raises
ClientClose ==
    \E c \in Connections :
        /\ sockets[c].state = "open"
        /\ sockets' = [sockets EXCEPT ![c].state = "closed"]
        /\ UNCHANGED <<active_connections, inbox, broadcasts, variant, serverVars,
                       callVars>>

\* websocket_endpoint's except branch: active_connections.remove(websocket);
\* a ValueError of remove leaves the handler by an exception
WsDisconnect ==
    \E c \in Connections :
        /\ sockets[c].state = "closed"
        /\ IF InList(active_connections, c)
           THEN /\ active_connections' = Remove(active_connections, c)
                /\ sockets' = [sockets EXCEPT ![c].state = "ended"]
           ELSE /\ active_connections' = active_connections
                /\ sockets' = [sockets EXCEPT ![c].state = "crashed"]
        /\ UNCHANGED <<inbox, broadcasts, variant, serverVars, callVars>>

\* the for statement over active_connections takes its next item: the list
\* iterator keeps an index k into the list as it is now. When the list is
\* exhausted the removal loop runs, and the call returns or raises
ForNext(b) ==
    IF b.k < Len(active_connections)
    THEN /\ broadcasts' = [broadcasts EXCEPT ![b.session_id] =
                [pc |-> "send", n |-> b.n, k |-> b.k + 1,
                 connection |-> active_connections[b.k + 1],
                 disconnected |-> b.disconnected, audience |-> b.audience]]
         /\ active_connections' = active_connections
    ELSE LET r == RemoveDisconnected(active_connections, b.disconnected)
         IN /\ active_connections' = r.list
            /\ broadcasts' = [broadcasts EXCEPT ![b.session_id] =
                   [pc |-> IF r.raised THEN "raised" ELSE "idle", n |-> b.n,
                    k |-> b.k, connection |-> 0,
                    disconnected |-> b.disconnected, audience |-> b.audience]]

\* broadcast_progress is called for a session: message and disconnected are
\* set up and the loop is entered
BroadcastBegin ==
    \E s \in SessionIds :
        /\ variant = "enhanced"
        /\ broadcasts[s].pc = "idle"
        /\ broadcasts[s].n < MaxBroadcasts
        /\ ForNext([session_id |-> s, n |-> broadcasts[s].n + 1, k |-> 0,
                    disconnected |-> <<>>,
                    audience |-> {active_connections[j] :
                                      j \in 1..Len(active_connections)}])
        /\ UNCHANGED <<sockets, inbox, variant, serverVars, callVars>>

\* await connection.send_json(message) takes effect: the message reaches an open
\* socket, any other socket raises and the except branch notes the connection
BroadcastSend ==
    \E s \in SessionIds :
        LET b == broadcasts[s]
            c == b.connection
        IN /\ b.pc = "send"
           /\ IF sockets[c].state = "open"
              THEN /\ inbox' = [inbox EXCEPT ![c] = @ \cup {ProgressMessage(s, b.n)}]
                   /\ broadcasts' = [broadcasts EXCEPT ![s].pc = "sent"]
              ELSE /\ inbox' = inbox
                   /\ broadcasts' = [broadcasts EXCEPT
                          ![s].pc = "sent",
                          ![s].disconnected = Append(@, c)]
           /\ UNCHANGED <<active_connections, sockets, variant, serverVars,
                          callVars>>

\* the await is over and the loop goes on
BroadcastResume ==
    \E s \in SessionIds :
        /\ broadcasts[s].pc = "sent"
        /\ ForNext([session_id |-> s, n |-> broadcasts[s].n, k |-> broadcasts[s].k,
                    disconnected |-> broadcasts[s].disconnected,
                    audience |-> broadcasts[s].audience])
        /\ UNCHANGED <<sockets, inbox, variant, serverVars, callVars>>

\* ---- specifications --------------------------------------------------------
Quiet ==
    /\ NoSockets
    /\ cpu = "idle"
    /\ uppc = "idle"
    /\ exhibit_a_readable = FALSE
    /\ names_ok = FALSE
    /\ saved = 0
    /\ response = "none"
    /\ handler_waited = FALSE
    /\ files = {}
    /\ download = "none"
    /\ in_store = FALSE
    /\ events = <<>>
    /\ status = "none"
    /\ words = 0
    /\ queries = 0
    /\ messages_len = InitialMessages
    /\ last_content = "none"
    /\ tool_calls = <<>>
    /\ turns = 0
    /\ attempts = <<>>
    /\ search_failed = FALSE
    /\ model_failed = FALSE
    /\ raised = FALSE
    /\ rpc = "off"
    /\ connected = TRUE
    /\ last_event_index = 0
    /\ i = 0
    /\ range_end = 0
    /\ forwarded = <<>>

\* no function is run on its own
NoCall ==
    /\ fn = "none"
    /\ arg = <<>>
    /\ ret = <<>>

\* the server after start-up: no request yet
Init ==
    /\ variant \in Variants
    /\ genpc = "none"
    /\ Quiet
    /\ NoCall

Next ==
    \/ UploadBegin
    \/ UploadSave
    \/ UploadProcess
    \/ EnhancedResearch
    \/ EnhancedDocuments
    \/ DirectCall
    \/ GenStartMain
    \/ GenWord
    \/ GenSearched
    \/ GenAfterSearch
    \/ GenRaise
    \/ GenStartLoop
    \/ GenRequestRejected
    \/ GenStreamBroken
    \/ GenTurn(MaxTurns)
    \/ GenTool
    \/ GenToolResult
    \/ GenRender
    \/ RelayConnect
    \/ RelayPoll
    \/ RelayResume
    \/ RelayWake
    \/ ClientDisconnect
    \/ DownloadFile

Spec == Init /\ [][Next]_vars

\* generate_with_o3_research of main_o3.py / main_backup.py on its own, from the
\* moment its task has been created, followed up to the iteration cap
LoopInit ==
    /\ variant \in LoopVariants
    /\ genpc = "created"
    /\ Quiet
    /\ NoCall

LoopNext ==
    \/ GenStartLoop
    \/ GenRequestRejected
    \/ GenStreamBroken
    \/ GenTurn(LongTurns)
    \/ GenTool
    \/ GenToolResult
    \/ GenRender

LoopSpec == LoopInit /\ [][LoopNext]_vars

\* the tool loop of one model turn on its own: the turn has just been appended
\* to the conversation and carries up to MaxCalls tool calls
MaxCalls == 3
CallSeqs == UNION {[1..n -> ToolNames] : n \in 1..MaxCalls}
ToolInit ==
    /\ variant \in LoopVariants
    /\ NoSockets
    /\ genpc = "tools"
    /\ cpu = "gen"
    /\ uppc = "idle"
    /\ exhibit_a_readable = FALSE
    /\ names_ok = FALSE
    /\ saved = 0
    /\ response = "none"
    /\ handler_waited = FALSE
    /\ files = {}
    /\ download = "none"
    /\ in_store = TRUE
    /\ status = NewSession.status
    /\ \E k \in 0..1 :
        /\ events = AppendTimes(NewSession.events, ThinkingEvent, k)
        /\ last_content = IF k = 0 THEN "none" ELSE "plain"
    /\ words = 0
    /\ queries = 0
    /\ messages_len = InitialMessages + 1
    /\ tool_calls \in CallSeqs
    /\ turns = 1
    /\ attempts = Attempts(variant, TRUE, TRUE)
    /\ search_failed = FALSE
    /\ model_failed = FALSE
    /\ raised = FALSE
    /\ rpc = "off"
    /\ connected = TRUE
    /\ last_event_index = 0
    /\ i = 0
    /\ range_end = 0
    /\ forwarded = <<>>
    /\ NoCall

ToolNext ==
    \/ GenTool
    \/ GenToolResult

ToolSpec == ToolInit /\ [][ToolNext]_vars


\* ---- the links of the done event and the download route ------------------------
\* "motion_url": f"/api/download/{session_id}/Motion.pdf", ...: the route a link
\* addresses and the file it names
LinkPrefix(v) == IF v = "main" THEN "/api/download" ELSE "/download"
LinkNames(v) ==
    {"Motion.pdf", "Memo.pdf", "Declaration.pdf",
     IF v = "backup" THEN "packet.zip" ELSE "motion_packet.zip"}
Links(v) == {[prefix |-> LinkPrefix(v), name |-> n] : n \in LinkNames(v)}
\* @app.get("/api/download/{session_id}/{filename}") and its counterparts
DownloadRoute(v) == IF v = "main" THEN "/api/download" ELSE "/download"
Routed(v, link) == link.prefix = DownloadRoute(v)

\* a client follows a link of the done payload (the names are the same for
\* every session, so it may do so at any time): arg is the file asked for
DownloadLink ==
    /\ cpu = "idle"
    /\ \E link \in Links(variant) :
        /\ arg' = <<link.name>>
        /\ download' = IF Routed(variant, link) /\ link.name \in files
                       THEN "200" ELSE "404"
    /\ UNCHANGED <<socketVars, variant, cpu, upVars, files, storeVars, genVars, relayVars, fn, ret>>

\* the generation task from its creation on, and the downloads of its client
DeliveryInit ==
    /\ variant \in SseVariants
    /\ genpc = "created"
    /\ Quiet
    /\ NoCall

DeliveryNext ==
    \/ GenStartMain
    \/ GenWord
    \/ GenSearched
    \/ GenAfterSearch
    \/ GenRaise
    \/ GenStartLoop
    \/ GenRequestRejected
    \/ GenStreamBroken
    \/ GenTurn(MaxTurns)
    \/ GenTool
    \/ GenToolResult
    \/ GenRender
    \/ DownloadLink

DeliverySpec == DeliveryInit /\ [][DeliveryNext]_vars


\* ---- the generation task and one relay, under asyncio's scheduling -------------
StreamNext ==
    \/ GenStartMain
    \/ GenWord
    \/ GenSearched
    \/ GenAfterSearch
    \/ GenRaise
    \/ GenStartLoop
    \/ GenRequestRejected
    \/ GenStreamBroken
    \/ GenTurn(MaxTurns)
    \/ GenTool
    \/ GenToolResult
    \/ GenRender
    \/ RelayConnect
    \/ RelayPoll
    \/ RelayResume
    \/ RelayWake

\* the event loop runs every task that is ready: a sleep of the relay ends, its
\* client (which stays connected) asks for the next item, and the next poll
\* is made.  Nothing is assumed about the provider's answers.
RelayFairness ==
    /\ WF_vars(RelayPoll)
    /\ WF_vars(RelayResume)
    /\ WF_vars(RelayWake)

StreamSpec == DeliveryInit /\ [][StreamNext]_vars /\ RelayFairness


\* ---- a relay opened once the session is completed ------------------------------
\* (such a relay finds status = "completed" at the end of every batch and so
\* never reaches its sleep)
LateConnect ==
    /\ status = "completed"
    /\ RelayConnect

LateNext ==
    \/ GenStartMain
    \/ GenWord
    \/ GenSearched
    \/ GenAfterSearch
    \/ GenRaise
    \/ GenStartLoop
    \/ GenRequestRejected
    \/ GenStreamBroken
    \/ GenTurn(MaxTurns)
    \/ GenTool
    \/ GenToolResult
    \/ GenRender
    \/ LateConnect
    \/ RelayPoll
    \/ RelayResume

LateSpec == DeliveryInit /\ [][LateNext]_vars

\* main_enhanced.py: clients on /ws/research/{session_id} and the
\* broadcast_progress calls of the uploads in progress, one call at a time for
\* each session, every await a point where the other tasks may run
WsInit ==
    /\ variant = "enhanced"
    /\ genpc = "none"
    /\ Quiet
    /\ NoCall

WsNext ==
    \/ WsAccept
    \/ ClientClose
    \/ WsDisconnect
    \/ BroadcastBegin
    \/ BroadcastSend
    \/ BroadcastResume

WsSpec == WsInit /\ [][WsNext]_vars


\* ---- functions run on their own ------------------------------------------------
\* fragments a text given to parse_defendant_info is made of
MaxFragments == 2

RECURSIVE TextsOf(_)
TextsOf(n) ==
    IF n = 0 THEN {<<>>}
    ELSE TextsOf(n - 1) \cup
         {t \o Fragments[k] : t \in TextsOf(n - 1), k \in DOMAIN Fragments}
Texts == TextsOf(MaxFragments)

Pending == [done |-> FALSE, value |-> <<>>]
Returned(x) == [done |-> TRUE, value |-> x]

\* exhibit_a_text as extract_text_from_pdf hands it to the parser
CallParse ==
    /\ fn = "parse_defendant_info"
    /\ ~ret.done
    /\ ret' = Returned(parse_defendant_info(variant, arg))
    /\ UNCHANGED <<socketVars, variant, serverVars, fn, arg>>

\* final_content as the model loop leaves it
CallSplit ==
    /\ fn = "split_documents"
    /\ ~ret.done
    /\ ret' = Returned(SplitDocuments(variant, arg))
    /\ UNCHANGED <<socketVars, variant, serverVars, fn, arg>>

\* a document of the splitter, on its way to a PDF file
CallRender ==
    /\ fn = "create_pdf_document"
    /\ ~ret.done
    /\ ret' = Returned(create_pdf_document(variant, arg))
    /\ UNCHANGED <<socketVars, variant, serverVars, fn, arg>>

\* a download request for a file name
CallDownload ==
    /\ fn = "download_file"
    /\ ~ret.done
    /\ \E exists \in BOOLEAN : ret' = Returned(download_file(variant, arg, exists))
    /\ UNCHANGED <<socketVars, variant, serverVars, fn, arg>>

\* one call of one function, on an argument of the bounded sets above
FnInit ==
    /\ variant \in Variants
    /\ genpc = "none"
    /\ Quiet
    /\ ret = Pending
    /\ \/ fn = "parse_defendant_info" /\ arg \in Texts
       \/ fn = "split_documents" /\ arg \in Responses
       \/ fn = "create_pdf_document" /\ arg \in Contents
       \/ fn = "download_file" /\ arg \in FileNames

FnNext ==
    \/ CallParse
    \/ CallSplit
    \/ CallRender
    \/ CallDownload

FnSpec == FnInit /\ [][FnNext]_vars

\* ---- properties --------------------------------------------------------------
IsPrefix(a, b) == Len(a) <= Len(b) /\ SubSeq(b, 1, Len(a)) = a
\* the indexes 0 .. n-1 in order
Indexes(n) == [k \in 1..n |-> k - 1]
GenEnded == {"done", "aborted", "crashed"}
ForwardedType(t) == \E k \in DOMAIN forwarded : events[forwarded[k] + 1].type = t

\* C1: a relay that stayed connected and ended on status = completed has
\* forwarded every event of the log exactly once (N appends, N messages); stated
\* for the sessions whose generation raised nothing, so that no break after an
\* error event is involved.
C1_ExactlyOnce ==
    (rpc = "exit" /\ connected /\ status = "completed" /\ ~HasType(events, "error"))
        => forwarded = Indexes(Len(events))

\* C2: the relay forwards in append order: the indexes it has yielded are
\* strictly increasing, in every variant and under every interleaving.
C2_AppendOrder ==
    \A a, b \in DOMAIN forwarded : a < b => forwarded[a] < forwarded[b]
C2_Witness ==
    /\ Len(forwarded) >= 3
    /\ Len(events) > Len(forwarded)

\* C3: status only moves none -> active -> completed, completed is terminal,
\* and no step changes the log of a session whose status is completed.
C3_CompletedIsTerminal ==
    [][/\ status' # status =>
            \/ status = "none" /\ status' = "active"
            \/ status = "active" /\ status' = "completed"
       /\ status = "completed" => status' = "completed" /\ events' = events]_vars
C3_Witness ==
    /\ status = "completed"
    /\ rpc = "yield"
    /\ HasType(events, "done")

\* C4: a generation task started by the upload handler that has ended, normally
\* or on an error of an external call, has set the status to completed.
C4_EndsCompleted ==
    (response = "session_id" /\ genpc \in GenEnded) => status = "completed"

\* C5: the event log is append-only: in every step the log before the step is
\* a prefix of the log after it.
C5_AppendOnly == [][IsPrefix(events, events')]_vars
C5_Witness ==
    /\ Len(events) >= 3
    /\ Len(forwarded) >= 1
    /\ genpc \in GenEnded

C8_CapStopsLoop == genpc = "request" => messages_len <= IterationCap + MaxTools

\* C9: a rejected o3 request is followed by exactly one gpt-4o request, and the
\* error event of a model failure comes only after both were rejected.
C9_FallbackBeforeError ==
    (attempts # <<>> /\ attempts[1] = <<"o3", "rejected">>) =>
        /\ Len(attempts) = 2
        /\ attempts[2][1] = "gpt-4o"

\* C10: for three valid uploads with a readable exhibit A the handler answers
\* with the session identifier, having created the generation task and without
\* having waited for research, generation or rendering.
C10_ImmediateReturn ==
    (uppc = "returned" /\ names_ok /\ exhibit_a_readable) =>
        /\ response = "session_id"
        /\ genpc # "none"
        /\ ~handler_waited

\* a step of the generation task, whichever variant runs it
GenStep ==
    \/ GenStartMain
    \/ GenWord
    \/ GenSearched
    \/ GenAfterSearch
    \/ GenRaise
    \/ GenStartLoop
    \/ GenRequestRejected
    \/ GenStreamBroken
    \/ GenTurn(MaxTurns)
    \/ GenTool
    \/ GenToolResult
    \/ GenRender
GenRunning == genpc \notin ({"none"} \cup GenEnded)
AllExhibits == {ExhibitNames[k] : k \in DOMAIN ExhibitNames}

\* C11: a disconnected client does not cancel generation: while the task has
\* not ended it can always take its next step, also after the relay has left
\* its loop, and no step of the relay (the disconnect included) changes the
\* session's log or status, the generated files or the task's own state.
C11_DisconnectLeavesGeneration ==
    /\ []((~connected /\ GenRunning) => ENABLED GenStep)
    /\ [][relayVars' # relayVars => UNCHANGED <<storeVars, genVars, files, cpu>>]_vars
\* the relay left on a disconnect before it had seen the end of the log, and
\* the generation has completed and written its files
C11_Witness ==
    /\ ~connected
    /\ rpc = "exit"
    /\ last_event_index < Len(events)
    /\ status = "completed"
    /\ GeneratedFiles(variant) \subseteq files

\* C12: an upload whose exhibit A cannot be read is answered with the
\* extractor's 400, the handler creates no generation task and the session
\* store gets no entry.
C12_ExtractionFailure ==
    (uppc = "returned" /\ saved > 0 /\ ~exhibit_a_readable) =>
        /\ response = "error400"
        /\ variant # "backup" => genpc = "none"
        /\ ~in_store

\* C19: when the upload has been answered with the session identifier, the
\* session directory holds exhibit A, exhibit B and exhibit C.
C19_AllExhibitsSaved ==
    response = "session_id" => AllExhibits \subseteq files

\* C20 as stated: from the handler's return of the session identifier on, the
\* identifier is a key of the session store, with a log and a status.
C20_SessionFromReturn ==
    response = "session_id" => (in_store /\ status \in {"active", "completed"})
\* C20 as amended: the entry is made by the generation task's first step, not
\* by the handler; from that step on the identifier stays a key of the store,
\* with an event log and status active or completed, and no step removes it.
C20_SessionKept ==
    /\ [](GenRunning /\ genpc # "created" => in_store)
    /\ [](genpc \in GenEnded => in_store)
    /\ [](in_store => status \in {"active", "completed"})
    /\ [][in_store => in_store']_vars
C20_Witness ==
    /\ response = "session_id"
    /\ in_store
    /\ genpc \in GenEnded
    /\ rpc = "exit"
    /\ download = "200"

Contains(t, sub) ==
    \E p \in 1..(Len(t) - Len(sub) + 1) : SubSeq(t, p, p + Len(sub) - 1) = sub
Parsed == fn = "parse_defendant_info" /\ ret.done
\* the patterns of field f that match somewhere in text t, by list position
Hits(v, f, t) ==
    IF f \in DOMAIN Patterns(v)
    THEN {k \in DOMAIN Patterns(v)[f] : Found(Search(Patterns(v)[f][k], t))}
    ELSE {}
FirstHit(v, f, t) ==
    Search(Patterns(v)[f][CHOOSE k \in Hits(v, f, t) : \A j \in Hits(v, f, t) : k <= j], t)
\* the table with the pattern lists of the other fields taken out
OnlyField(table, f) == [g \in {f} \cap DOMAIN table |-> table[g]]

\* C13: whenever the text contains "Case No: 1:20-cr-00456-DEF", the parsed
\* case_number is exactly "1:20-cr-00456-DEF".
C13_CaseNumberExact ==
    (Parsed /\ Contains(arg, CaseLine)) =>
        ret.value.case_number = SubSeq(CaseLine, 10, Len(CaseLine))

\* C14 as stated: every field holds the captured group of the first pattern in
\* list order that matches anywhere in the text.
C14_FirstPatternGroup ==
    Parsed => \A f \in DOMAIN Patterns(variant) :
        Hits(variant, f, arg) # {} =>
            ret.value[f] = Group1(arg, FirstHit(variant, f, arg))
\* C14 as amended: every field holds the captured group, stripped of leading
\* and trailing whitespace, of the first pattern in list order that matches
\* anywhere in the text, wherever the later patterns of the field match, and
\* the value is the one the field's own pattern list gives without the lists of
\* the other fields.
C14_FirstPatternStripped ==
    Parsed => \A f \in DOMAIN Patterns(variant) :
        /\ Hits(variant, f, arg) # {} =>
                ret.value[f] = Strip(Group1(arg, FirstHit(variant, f, arg)))
        /\ ret.value[f] = ParseWith(OnlyField(Patterns(variant), f), arg)[f]
\* the second pattern of case_number matches earlier in the text than the
\* first, the first one's group was stored, and another field matched too
C14_Witness ==
    /\ Parsed
    /\ variant = "main"
    /\ Hits(variant, "case_number", arg) = {1, 2}
    /\ Search(Pat_case_number_3, arg).s < Search(Pat_case_number_1, arg).s
    /\ ret.value.case_number = Group1(arg, Search(Pat_case_number_1, arg))
    /\ ret.value.case_number # Group1(arg, Search(Pat_case_number_3, arg))
    /\ ret.value.name # UNKNOWN

\* C15: when no pattern of any field matches the text, all eight fields of the
\* returned record are "UNKNOWN" (the call returns, nothing is raised).
C15_AllUnknown ==
    (Parsed /\ \A f \in Fields : Hits(variant, f, arg) = {}) =>
        /\ DOMAIN ret.value = Fields
        /\ \A f \in Fields : ret.value[f] = UNKNOWN
C15_Witness ==
    /\ Parsed
    /\ arg # <<>>
    /\ \A f \in Fields : Hits(variant, f, arg) = {}
    /\ \A f \in Fields : ret.value[f] = UNKNOWN

Split == fn = "split_documents" /\ ret.done
\* text t has a start delimiter of d with an end delimiter of d after it
HasBlock(d, t) ==
    \E p, q \in DOMAIN t : p < q /\ t[p] = StartOf(d) /\ t[q] = EndOf(d)
\* what lies between the first start delimiter of d and the first end
\* delimiter of d after it
InnerBody(d, t) ==
    LET p == CHOOSE x \in DOMAIN t :
                /\ t[x] = StartOf(d)
                /\ \A y \in 1..(x - 1) : t[y] # StartOf(d)
        q == CHOOSE x \in (p + 1)..Len(t) :
                /\ t[x] = EndOf(d)
                /\ \A y \in (p + 1)..(x - 1) : t[y] # EndOf(d)
    IN  SubSeq(t, p + 1, q - 1)
\* x is y without its leading and trailing whitespace
IsTrimOf(x, y) ==
    /\ x = <<>> \/ (x[1] \notin Space /\ x[Len(x)] \notin Space)
    /\ \E a \in 0..Len(y) :
        /\ a + Len(x) <= Len(y)
        /\ SubSeq(y, a + 1, a + Len(x)) = x
        /\ \A j \in (1..a) \cup ((a + Len(x) + 1)..Len(y)) : y[j] \in Space
SplitAsSpecified(v, t, docs) ==
    \A d \in Docs :
        IF HasBlock(d, t) THEN IsTrimOf(docs[d], InnerBody(d, t))
        ELSE docs[d] = Placeholder(v, d)

\* C16 as stated: each document is the trimmed inner body of its block, or its
\* placeholder when its start or end delimiter is missing or malformed,
\* whatever the other two blocks look like.
C16_SplitterBodies == Split => SplitAsSpecified(variant, arg, ret.value)
\* C16 as amended: the same, except that main_enhanced.py answers an empty
\* response with its complete fallback documents and not with the placeholders.
C16_SplitterBodiesOrFallback ==
    Split =>
        IF UsesFallback(variant, arg)
        THEN \A d \in Docs : ret.value[d] = FallbackDocument(d)
        ELSE SplitAsSpecified(variant, arg, ret.value)
\* motion has a block whose body needed trimming, memo has two blocks and
\* gives the body of the first, declaration has no block
C16_Witness ==
    /\ Split
    /\ HasBlock("motion", arg)
    /\ ret.value["motion"] # InnerBody("motion", arg)
    /\ ret.value["motion"] # <<>>
    /\ Len(SelectSeq(arg, LAMBDA x : x = EndOf("memo"))) > 1
    /\ ret.value["memo"] = <<"memo">>
    /\ HasBlock("declaration", arg) = FALSE
    /\ ret.value["declaration"] = Placeholder(variant, "declaration")

Rendered == fn = "create_pdf_document" /\ ret.done
\* t[p..q] starts and ends with a visible character and has no blank line in it
Solid(t, p, q) ==
    /\ p <= q
    /\ t[p] \notin Space
    /\ t[q] \notin Space
    /\ \A j \in p..(q - 1) : ~(t[j] = "\n" /\ t[j + 1] = "\n")
\* the non-blank units of t: the longest such stretches
Units(t) ==
    {u \in (DOMAIN t) \X (DOMAIN t) :
        /\ Solid(t, u[1], u[2])
        /\ \A w \in (DOMAIN t) \X (DOMAIN t) :
            (Solid(t, w[1], w[2]) /\ w[1] <= u[1] /\ u[2] <= w[2]) => w = u}
\* the unit that has n units before it
UnitAt(t, n) ==
    CHOOSE u \in Units(t) : Cardinality({w \in Units(t) : w[1] < u[1]}) = n

\* C17: the story is one paragraph block per non-blank unit of the body, in
\* input order, each followed by one Spacer(1, 12), and nothing else.
C17_OneBlockPerUnit ==
    Rendered =>
        /\ Len(ret.value) = 2 * Cardinality(Units(arg))
        /\ \A j \in DOMAIN ret.value :
            IF j % 2 = 1
            THEN /\ ret.value[j].flowable = "Paragraph"
                 /\ ret.value[j].text =
                        SubSeq(arg, UnitAt(arg, j \div 2)[1], UnitAt(arg, j \div 2)[2])
            ELSE ret.value[j] = Spacer
\* an all-caps unit, then a lower-case unit: two blocks, in that order
C17_Witness ==
    /\ Rendered
    /\ arg = <<"I", "\n", "\n", "b">>
    /\ Len(ret.value) = 4
    /\ ret.value[1].text = <<"I">>
    /\ ret.value[3].text = <<"b">>
    /\ ret.value[2] = Spacer

\* the characters after the last dot of a file name (none when it has no dot)
Extension(f) ==
    LET dots == {j \in DOMAIN f : f[j] = "."}
    IN  IF dots = {} THEN <<>>
        ELSE SubSeq(f, (CHOOSE x \in dots : \A y \in dots : y <= x) + 1, Len(f))
TypeOfExtension(e) ==
    CASE e = <<"p", "d", "f">> -> "application/pdf"
      [] e = <<"z", "i", "p">> -> "application/zip"
      [] OTHER -> "application/octet-stream"

\* C18: in every variant, the download of an existing file is answered with the
\* content type of its extension: application/pdf for .pdf, application/zip for
\* .zip, application/octet-stream for anything else.
C18_ContentTypeByExtension ==
    (fn = "download_file" /\ ret.done /\ ret.value.status = "200") =>
        ret.value.media_type = TypeOfExtension(Extension(arg))

\* the loop has stopped on "if len(messages) > 25: break": no turn with the
\* delimiters is in the conversation
CapStop == genpc = "render" /\ messages_len > IterationCap /\ last_content # "full"

\* C21: a loop stopped by the iteration cap goes on to rendering, and the
\* rendering step that does not raise writes the three documents and the
\* archive, appends the done event and sets completed; no error event is
\* appended on the way.
C21_CapIsBestEffortDone ==
    /\ [](CapStop => ENABLED (GenRender /\ genpc' = "done"))
    /\ [][CapStop =>
            /\ ~HasType(events', "error")
            /\ \/ genpc' = "crashed" /\ events' = events
               \/ /\ genpc' = "done"
                  /\ GeneratedFiles(variant) \subseteq files'
                  /\ events' = Append(events, DoneEvent)
                  /\ events'[Len(events')].type = "done"
                  /\ status' = "completed"]_vars
\* the task has ended on the cap, with placeholder documents
C21_Witness ==
    /\ genpc = "done"
    /\ messages_len > IterationCap
    /\ last_content # "full"
    /\ status = "completed"
    /\ GeneratedFiles(variant) \subseteq files
    /\ ~HasType(events, "error")

SearchCount(log) == Cardinality({k \in DOMAIN log : log[k].type = "search"})
InToolLoop == variant \in LoopVariants /\ genpc \in {"tools", "searching"}
\* a step of the tool loop takes the calls from the front, and the next model
\* request is issued only when none is left
TakesCallsInOrder ==
    /\ \/ tool_calls' = tool_calls
       \/ tool_calls # <<>> /\ tool_calls' = Tail(tool_calls)
    /\ genpc' = "request" => tool_calls = <<>>

\* C22 as stated: every tool call of the turn gets one search event and one
\* tool-result turn, in tool-call order, before the next model request: in
\* every step of the tool loop, what the log and the conversation have gained
\* is what the list of calls has lost.
C22_OneResultPerToolCall ==
    [][InToolLoop =>
        /\ SearchCount(events') + Len(tool_calls') = SearchCount(events) + Len(tool_calls)
        /\ messages_len' + Len(tool_calls') = messages_len + Len(tool_calls)
        /\ TakesCallsInOrder]_vars
\* C22 as amended: the same for the web_search calls whose arguments parse;
\* a call of another name is dropped with nothing appended, and apart from
\* the error event of a call that does not parse, nothing but search events
\* enters the log.
C22_OneResultPerSearchCall ==
    [][InToolLoop =>
        IF genpc' = "aborted"
        THEN events' = Append(events, ErrorEvent) /\ messages_len' = messages_len
        ELSE /\ SearchCount(events') + Searches(tool_calls')
                    = SearchCount(events) + Searches(tool_calls)
             /\ messages_len' + Searches(tool_calls')
                    = messages_len + Searches(tool_calls)
             /\ Len(events') - SearchCount(events') = Len(events) - SearchCount(events)
             /\ TakesCallsInOrder]_vars
\* a turn with two searches and a call of another name has been worked off
C22_Witness ==
    /\ genpc = "request"
    /\ tool_calls = <<>>
    /\ SearchCount(events) = 2
    /\ messages_len = InitialMessages + 1 + 2
    /\ Len(events) = 2

\* the relay has left its loop by itself, its client still being there
RelayEndedItself == rpc = "exit" /\ connected

\* C23: a relay that stayed connected until it terminated on its own has
\* forwarded the done event of the log, whatever the interleaving with the
\* generation task and also when an error event precedes the done event.
C23_DoneForwarded ==
    (RelayEndedItself /\ HasType(events, "done")) => ForwardedType("done")

\* C24: status is completed only when the log ends with a done event, and a
\* done event is always the last event of the log (so there is at most one).
C24_DoneIsLast ==
    /\ status = "completed" => (events # <<>> /\ events[Len(events)].type = "done")
    /\ \A k \in DOMAIN events : events[k].type = "done" => k = Len(events)
\* completed after the except branch: the done event directly behind the error
C24_Witness ==
    /\ status = "completed"
    /\ Len(events) >= 2
    /\ events[Len(events)].type = "done"
    /\ events[Len(events) - 1].type = "error"
    /\ Cardinality({k \in DOMAIN events : events[k].type = "done"}) = 1

\* C25: once the log holds the done event, every link of its payload is
\* served by the variant's download route and names a file of the session's
\* directory, and every download of a link asked from then on answers 200.
C25_LinksResolve ==
    /\ [](HasType(events, "done") =>
            \A link \in Links(variant) : Routed(variant, link) /\ link.name \in files)
    /\ [][(HasType(events, "done") /\ <<arg, download>>' # <<arg, download>>)
            => download' = "200"]_vars
\* main_backup.py: the archive was downloaded once the done event was there
C25_Witness ==
    /\ HasType(events, "done")
    /\ arg = <<ZipName(variant)>>
    /\ download = "200"
    /\ variant = "backup"

\* the task has ended by appending a done event or an error event
EndedWithEvent == genpc \in {"done", "aborted"}
RelayOpen == rpc \in {"poll", "yield", "sleep"}

\* C26: once the generation task has ended by a done or an error event, a
\* relay attached to the session leaves its loop, its client staying connected.
C26_RelayEventuallyEnds == (EndedWithEvent /\ RelayOpen) ~> (rpc = "exit")

C28_OnlyOwnSession ==
    \A c \in Connections :
        \A m \in inbox[c] : m.session_id = sockets[c].session_id

\* no broadcast_progress call was left by an exception
NoBroadcastRaised == \A s \in SessionIds : broadcasts[s].pc # "raised"

\* no websocket_endpoint tried to remove a connection that was already removed
NoDoubleRemoval == \A c \in Connections : sockets[c].state # "crashed"

\* a call that returned has sent its message to every connection that was in
\* the list when it began and is still open
AudienceServed ==
    \A s \in SessionIds :
        (broadcasts[s].pc = "idle" /\ broadcasts[s].n > 0) =>
            \A c \in broadcasts[s].audience :
                sockets[c].state = "open" =>
                    ProgressMessage(s, broadcasts[s].n) \in inbox[c]

\* C29: broadcast_progress never fails, whatever the interleaving of
\* connections, disconnections and concurrent broadcasts: no removal of an
\* already-removed connection is attempted, by a broadcast or by an endpoint,
\* and every still-open connection receives the message
C29_BroadcastNeverFails ==
    /\ NoBroadcastRaised
    /\ NoDoubleRemoval
    /\ AudienceServed

\* the trimmed text has a letter and no lower-case letter
FullyUpperCase(text) ==
    /\ \E j \in DOMAIN text : text[j] \in Letter
    /\ \A j \in DOMAIN text : text[j] \in Letter => text[j] \in Upper

\* the trimmed text starts with a roman numeral (letters I, V, X) and a period
RomanNumeralPrefix(text) ==
    \E n \in 1..(Len(text) - 1) :
        /\ \A j \in 1..n : text[j] \in {"I", "V", "X"}
        /\ text[n + 1] = "."

\* C30: in every variant's create_pdf_document a non-blank unit is rendered
\* with the heading style exactly when its trimmed text is fully upper-case or
\* starts with a roman numeral followed by a period, and with the body style
\* otherwise
C30_HeadingsGetHeadingStyle ==
    Rendered =>
        \A j \in DOMAIN ret.value :
            ret.value[j].flowable = "Paragraph" =>
                ret.value[j].style =
                    IF FullyUpperCase(ret.value[j].text)
                           \/ RomanNumeralPrefix(ret.value[j].text)
                    THEN "Heading2"
                    ELSE "Normal"

====
